---- MODULE Spec2Model ----
(***************************************************************************)
(* State-machine model of the SmartThings <-> Spotify lambda               *)
(* (src/src/index.ts): the external-id codec, the playlist-device          *)
(* enumerator, the three st-schema handlers and the lambda entrypoint.     *)
(*                                                                         *)
(* Strings are modelled as finite sequences over an alphabet of atoms: the *)
(* delimiter "|" and a few delimiter-free chunks ("dev1", "ctx1", ...).    *)
(* The JavaScript values undefined and null are the distinguished values   *)
(* Undefined and Null.                                                     *)
(*                                                                         *)
(* JavaScript runs every synchronous segment of code to completion, so one *)
(* action of the model is one such segment: the code from an entry point   *)
(* (or from the resumption of an await) up to the next await, together     *)
(* with the promise reactions it triggers.                                 *)
(***************************************************************************)
EXTENDS Integers, Sequences, FiniteSets, TLC

\* ------------------------------------------------------------------ bounds

\* longest external id given to the codec
MaxLen == 5
\* longest component of a playlist device id given to the codec
MaxIdLen == 2
\* number of invocation slots
NumInv == 2
\* most device-command requests in one command batch
MaxDevs == 2
\* most commands in one command batch (over all its device-command requests)
MaxCmds == 2
\* most playback targets / playlists in one provider answer
MaxTargets == 3
MaxPlaylists == 2

\* ----------------------------------------------------------------- strings

Delim == "|"
Undefined == <<"#undefined">>
Null == <<"#null">>

Min(a, b) == IF a < b THEN a ELSE b

RECURSIVE StringsOver(_, _)
\* all strings over alphabet A of length at most n
StringsOver(A, n) ==
  IF n = 0 THEN {<<>>}
  ELSE LET shorter == StringsOver(A, n - 1)
       IN shorter \cup {Append(s, a) : s \in shorter, a \in A}

HasDelim(s) == \E k \in 1..Len(s) : s[k] = Delim

\* String.prototype.indexOf("|"), 1-based; 0 when absent
IndexOfDelim(s) ==
  IF HasDelim(s)
  THEN CHOOSE k \in 1..Len(s) : s[k] = Delim /\ \A j \in 1..(k - 1) : s[j] # Delim
  ELSE 0

RECURSIVE SplitAll(_)
\* String.prototype.split("|") without a limit: every delimiter separates
SplitAll(s) ==
  IF ~HasDelim(s) THEN <<s>>
  ELSE LET k == IndexOfDelim(s)
       IN <<SubSeq(s, 1, k - 1)>> \o SplitAll(SubSeq(s, k + 1, Len(s)))

\* String.prototype.split("|", limit): the first `limit` pieces of the full split
Split(s, limit) ==
  LET all == SplitAll(s) IN SubSeq(all, 1, Min(limit, Len(all)))

\* array[k] of JavaScript (1-based here): undefined beyond the end
At(arr, k) == IF k <= Len(arr) THEN arr[k] ELSE Undefined

\* template-literal interpolation `${v}`
ToStr(v) ==
  IF v = Undefined THEN <<"undefined">>
  ELSE IF v = Null THEN <<"null">>
  ELSE v

\* ------------------------------------------------------------------- codec

externalIdToPlaylistDeviceId(externalId) ==
  LET split == Split(externalId, 2)
  IN [deviceId |-> At(split, 1), playlistUri |-> At(split, 2)]

\* the two components written in the wrong order
playlistDeviceIdToExternalIdSwapped(playlistDeviceId) ==
  ToStr(playlistDeviceId.playlistUri) \o <<Delim>> \o ToStr(playlistDeviceId.deviceId)

playlistDeviceIdToExternalId(playlistDeviceId) ==
  ToStr(playlistDeviceId.deviceId) \o <<Delim>> \o ToStr(playlistDeviceId.playlistUri)

\* ------------------------------------------------------------ input domain

Range(s) == {s[k] : k \in 1..Len(s)}

RECURSIVE DistinctSeqs(_, _)
\* sequences of pairwise distinct elements of S, of length at most n
DistinctSeqs(S, n) ==
  IF n = 0 THEN {<<>>}
  ELSE LET shorter == DistinctSeqs(S, n - 1)
       IN shorter \cup {s \in {Append(t, x) : t \in shorter, x \in S} :
                          Cardinality(Range(s)) = Len(s)}

\* alphabet of the strings given to the codec
CodecAlphabet == {"dev1", "ctx1", Delim}

MobileWebPlayer == "Mobile Web Player"

\* playback targets the provider may report (spotify.getMyDevices().body.devices);
\* the provider's device ids identify its devices, a device without id has id null
ProviderDevices ==
  { [id |-> <<"dev1">>, name |-> MobileWebPlayer, type |-> "Computer"],
    [id |-> <<"dev2">>, name |-> MobileWebPlayer, type |-> "Smartphone"],
    [id |-> <<"dev3">>, name |-> "Kitchen", type |-> "Speaker"],
    [id |-> Null, name |-> MobileWebPlayer, type |-> "Computer"] }

\* playlists the provider may report (spotify.getUserPlaylists().body.items)
ProviderPlaylists ==
  { [uri |-> <<"ctx1">>, name |-> "Mix"],
    [uri |-> <<"ctx2">>, name |-> "Jazz"] }

DeviceLists == DistinctSeqs(ProviderDevices, MaxTargets)
PlaylistLists == DistinctSeqs(ProviderPlaylists, MaxPlaylists)

\* the bearer token the request of invocation i carries
Token(i) == <<"token", i>>

\* external device ids the platform addresses commands to
ExternalIds == { <<"dev1", Delim, "ctx1">>, <<"dev2", Delim, "ctx2", Delim, "ctx1">> }

MediaPlayback == "st.mediaPlayback"

\* (capability, command) pairs of a device-command request: the four the
\* handler knows, an unknown command and an unknown capability
CommandPairs ==
  { [capability |-> MediaPlayback, command |-> "play"],
    [capability |-> MediaPlayback, command |-> "pause"],
    [capability |-> MediaPlayback, command |-> "fastForward"],
    [capability |-> MediaPlayback, command |-> "rewind"],
    [capability |-> MediaPlayback, command |-> "stop"],
    [capability |-> "st.switch", command |-> "play"] }

RECURSIVE CommandLists(_)
\* command lists of length at most n
CommandLists(n) ==
  IF n = 0 THEN {<<>>}
  ELSE LET shorter == CommandLists(n - 1)
       IN shorter \cup {Append(s, c) : s \in shorter, c \in CommandPairs}

RECURSIVE Batches(_, _)
\* command batches of at most nd device-command requests and nc commands in all
Batches(nd, nc) ==
  IF nd = 0 THEN {<<>>}
  ELSE {<<>>} \cup
       UNION { { <<[externalDeviceId |-> e, commands |-> cs]>> \o rest :
                   e \in ExternalIds, rest \in Batches(nd - 1, nc - Len(cs)) } :
               cs \in CommandLists(nc) }

\* the inbound event: its body is malformed JSON, the JSON value null, or an
\* st-schema request object; "absent" marks an invocation slot that is not used
Event(body, interactionType, token, devices) ==
  [body |-> body, interactionType |-> interactionType, token |-> token, devices |-> devices]

NoToken == <<"none", 0>>

NoEvent == Event("absent", "none", NoToken, <<>>)

\* the events with the given token and a command batch of the given set
Events(token, batches) ==
  { Event("malformed", "none", NoToken, <<>>), Event("null", "none", NoToken, <<>>) }
  \cup { Event("object", t, token, <<>>) : t \in {"discoveryRequest", "stateRefreshRequest"} }
  \cup { Event("object", "commandRequest", token, b) : b \in batches }

\* -------------------------------------------------------------------- state

Invs == 1..NumInv

VARIABLES
  codecPc,         \* codec run: "idIn", "extIn", "encoded", "decoded", "roundTrip", "off"
  codecIn,         \* the input of the codec run
  ext,             \* the external id the codec run holds
  pid,             \* the playlist device id the codec run holds
  event,           \* event[i]: the event invocation i is called with
  pc,              \* pc[i]: where invocation i is
  spotify,         \* spotify[i]: access token of the client of invocation i
  spotifyDevices,  \* spotifyDevices[i]: getPlaylistDevices' local
  playlists,       \* playlists[i]: getPlaylistDevices' local
  playlistDevices, \* playlistDevices[i]: the handler's local
  playbackState,   \* playbackState[i]: stateRefreshRequest's local
  calls,           \* calls[i]: the provider calls invocation i issued, in order
  promises,        \* promises[i]: the promises of the command callbacks
  response,        \* response[i]: the st-schema response accumulator
  writes,          \* writes[i]: which command wrote which state (history)
  results          \* results[i]: the transport results invocation i returned

codecVars == <<codecPc, codecIn, ext, pid>>
invVars == <<event, pc, spotify, spotifyDevices, playlists, playlistDevices,
             playbackState, calls, promises, response, writes, results>>
vars == <<codecPc, codecIn, ext, pid, event, pc, spotify, spotifyDevices, playlists,
          playlistDevices, playbackState, calls, promises, response, writes, results>>

NoPlaylistDeviceId == [deviceId |-> Undefined, playlistUri |-> Undefined]
NoPlaybackState == [is_playing |-> FALSE]

CodecOff ==
  /\ codecPc = "off"
  /\ codecIn = [kind |-> "none", ext |-> <<>>, id |-> NoPlaylistDeviceId]
  /\ ext = <<>>
  /\ pid = NoPlaylistDeviceId

InvIdle ==
  /\ pc = [i \in Invs |-> "idle"]
  /\ spotify = [i \in Invs |-> NoToken]
  /\ spotifyDevices = [i \in Invs |-> <<>>]
  /\ playlists = [i \in Invs |-> <<>>]
  /\ playlistDevices = [i \in Invs |-> <<>>]
  /\ playbackState = [i \in Invs |-> NoPlaybackState]
  /\ calls = [i \in Invs |-> <<>>]
  /\ promises = [i \in Invs |-> <<>>]
  /\ response = [i \in Invs |-> <<>>]
  /\ writes = [i \in Invs |-> {}]
  /\ results = [i \in Invs |-> <<>>]

\* ------------------------------------------------------- codec specification

CodecIds ==
  [deviceId : StringsOver(CodecAlphabet, MaxIdLen), playlistUri : StringsOver(CodecAlphabet, MaxIdLen)]

InitCodec ==
  /\ \/ /\ codecPc = "extIn"
        /\ ext \in StringsOver(CodecAlphabet, MaxLen)
        /\ pid = NoPlaylistDeviceId
        /\ codecIn = [kind |-> "ext", ext |-> ext, id |-> NoPlaylistDeviceId]
     \/ /\ codecPc = "idIn"
        /\ pid \in CodecIds
        /\ ext = <<>>
        /\ codecIn = [kind |-> "id", ext |-> <<>>, id |-> pid]
  /\ event = [i \in Invs |-> NoEvent]
  /\ InvIdle

\* decode the external id held: of the input, or of an encoding
Decode ==
  /\ codecPc \in {"extIn", "encoded"}
  /\ pid' = externalIdToPlaylistDeviceId(ext)
  /\ codecPc' = IF codecPc = "extIn" THEN "decoded" ELSE "roundTrip"
  /\ UNCHANGED <<codecIn, ext>>
  /\ UNCHANGED invVars

\* encode the playlist device id of the input
Encode ==
  /\ codecPc = "idIn"
  /\ ext' = playlistDeviceIdToExternalId(pid)
  /\ codecPc' = "encoded"
  /\ UNCHANGED <<codecIn, pid>>
  /\ UNCHANGED invVars

NextCodec == Decode \/ Encode

SpecCodec == InitCodec /\ [][NextCodec]_vars

\* ------------------------------------------------------------ the provider

\* a provider call as issued: its method, its arguments (a set of name-value
\* pairs), the access token of the client it is issued on, the command
\* <<device index, command index>> it is issued for (<<0, 0>>: a read call)
\* and whether it is pending, has returned or has raised
Call(method, args, token, origin) ==
  [method |-> method, args |-> args, token |-> token, origin |-> origin, status |-> "pending"]

ReadOrigin == <<0, 0>>

\* the call at position k settles with the given status
Settle(cs, k, status) == [cs EXCEPT ![k].status = status]

\* ------------------------------------------------------------ the transport

\* context.succeed of promiseHandler
succeed(resp) == [statusCode |-> 200, body |-> resp]

\* the failure callback answering like the success callback
failWith200(resp) == [statusCode |-> 200, body |-> resp]

\* context.fail of promiseHandler
fail(resp) == [statusCode |-> 500, body |-> resp]

\* the catch of exports.handler
caught(message) == [statusCode |-> 500, body |-> message]

\* resolve of the promise of promiseHandler: a promise settles once
Resolve(rs, r) == IF rs = <<>> THEN <<r>> ELSE rs

ErrorBody(what) == <<[error |-> what]>>

\* the function the st-schema lambda() returns, once the promise of the handler
\* it selected is in the given state: context.succeed(response) when the
\* handler completed, context.fail(error) when it failed (the library is not
\* part of the repository; this is its contract as section 4.6 of the
\* specification states it)
lambda(rs, handlerPromise, resp, error) ==
  IF handlerPromise = "fulfilled" THEN Resolve(rs, succeed(resp))
  ELSE IF handlerPromise = "rejected" THEN Resolve(rs, fail(ErrorBody(error)))
  ELSE rs

\* one process-wide client, which keeps the access token it was created with
getSpotifySingleton(request) ==
  IF \E j \in DOMAIN spotify : spotify[j] # <<"none", 0>>
  THEN spotify[CHOOSE j \in DOMAIN spotify : spotify[j] # <<"none", 0>>]
  ELSE request.token

\* new SpotifyWebApi() with the access token of the request
getSpotify(request) == request.token

\* ----------------------------------------------------------- the enumerator

\* !!spotifyDevice.id
HasId(spotifyDevice) ==
  spotifyDevice.id # Null /\ spotifyDevice.id # Undefined /\ spotifyDevice.id # <<>>

IsMobileWebPlayer(spotifyDevice) == spotifyDevice.name = MobileWebPlayer

PlaylistDevice(spotifyDevice, playlist) ==
  [ id |-> [deviceId |-> spotifyDevice.id, playlistUri |-> playlist.uri],
    name |-> <<"Playlist ", playlist.name, " on ", spotifyDevice.name>>,
    model |-> spotifyDevice.type ]

RECURSIVE ForEachPlaylist(_, _)
\* playlists.forEach(playlist => result.push(...))
ForEachPlaylist(spotifyDevice, pls) ==
  IF pls = <<>> THEN <<>>
  ELSE <<PlaylistDevice(spotifyDevice, Head(pls))>> \o ForEachPlaylist(spotifyDevice, Tail(pls))

RECURSIVE ForEachDevice(_, _)
\* devices.forEach(spotifyDevice => playlists.forEach(...))
ForEachDevice(devs, pls) ==
  IF devs = <<>> THEN <<>>
  ELSE ForEachPlaylist(Head(devs), pls) \o ForEachDevice(Tail(devs), pls)

\* the enumerator without its filter on the device name
getPlaylistDevicesUnfiltered(devs, pls) == ForEachDevice(SelectSeq(devs, HasId), pls)

\* the enumerator with its two loops nested the other way round
getPlaylistDevicesPlaylistsOuter(devs, pls) ==
  LET sel == SelectSeq(SelectSeq(devs, HasId), IsMobileWebPlayer)
      n == Len(sel)
  IN [a \in 1..(n * Len(pls)) |->
        PlaylistDevice(sel[((a - 1) % n) + 1], pls[((a - 1) \div n) + 1])]

\* the synchronous part of getPlaylistDevices, after its two reads
getPlaylistDevices(devs, pls) ==
  ForEachDevice(SelectSeq(SelectSeq(devs, HasId), IsMobileWebPlayer), pls)

\* -------------------------------------------------- discovery, state refresh

DeviceProfile == "0284c595-fed5-4b00-9e02-6e85bb3b32fb"

\* an announcement numbered by a process-wide count of served invocations
AnnouncementNumbered(playlistDevice) ==
  [ externalDeviceId |-> playlistDeviceIdToExternalId(playlistDevice.id),
    friendlyName |-> Append(playlistDevice.name,
                            Cardinality({i \in DOMAIN pc : pc[i] = "fulfilled"})),
    deviceHandlerType |-> "0284c595-fed5-4b00-9e02-6e85bb3b32fb",
    manufacturerName |-> "Spotify",
    modelName |-> playlistDevice.model ]

\* response.addDevice(id, name, profile).manufacturerName(..).modelName(..)
Announcement(playlistDevice) ==
  [ externalDeviceId |-> playlistDeviceIdToExternalId(playlistDevice.id),
    friendlyName |-> playlistDevice.name,
    deviceHandlerType |-> DeviceProfile,
    manufacturerName |-> "Spotify",
    modelName |-> playlistDevice.model ]

SupportedPlaybackCommands == <<"pause", "play", "fastForward", "rewind">>

State(capability, attribute, value) ==
  [component |-> "main", capability |-> capability, attribute |-> attribute, value |-> value]

\* a state report with the is_playing flag read the wrong way round
StateReportInverted(playlistDevice, state) ==
  [ externalDeviceId |-> playlistDeviceIdToExternalId(playlistDevice.id),
    states |-> << [component |-> "main", capability |-> "st.mediaPlayback",
                   attribute |-> "supportedPlaybackCommands",
                   value |-> <<"pause", "play", "fastForward", "rewind">>],
                  [component |-> "main", capability |-> "st.mediaPlayback",
                   attribute |-> "playbackStatus",
                   value |-> IF state.is_playing THEN "paused" ELSE "playing"] >> ]

\* response.addDevice(id, [supportedPlaybackCommands, playbackStatus])
StateReport(playlistDevice, state) ==
  [ externalDeviceId |-> playlistDeviceIdToExternalId(playlistDevice.id),
    states |-> << State(MediaPlayback, "supportedPlaybackCommands", SupportedPlaybackCommands),
                  State(MediaPlayback, "playbackStatus",
                        IF state.is_playing THEN "playing" ELSE "paused") >> ]

\* playlistDevices.forEach(playlistDevice => response.addDevice(...))
AddAnnouncements(resp, pds) == resp \o [k \in 1..Len(pds) |-> Announcement(pds[k])]

AddStateReports(resp, pds, state) == resp \o [k \in 1..Len(pds) |-> StateReport(pds[k], state)]

IsRequest(i, interactionType) ==
  event[i].body = "object" /\ event[i].interactionType = interactionType

\* exports.handler when JSON.parse throws, or when the body is the JSON value
\* null and body.headers throws: the catch returns a 500
handlerCatch(i) ==
  /\ pc[i] = "idle"
  /\ event[i].body \in {"malformed", "null"}
  /\ pc' = [pc EXCEPT ![i] = "caught"]
  /\ results' = [results EXCEPT ![i] = Append(@, caught("message"))]
  /\ UNCHANGED <<event, spotify, spotifyDevices, playlists, playlistDevices,
                 playbackState, calls, promises, response, writes>>
  /\ UNCHANGED codecVars

\* a read handler up to its first await, which is the first await of
\* getPlaylistDevices
startRead(i) ==
  /\ pc[i] = "idle"
  /\ spotify' = [spotify EXCEPT ![i] = getSpotify(event[i])]
  /\ calls' = [calls EXCEPT ![i] = Append(@, Call("getMyDevices", {}, spotify'[i], ReadOrigin))]
  /\ pc' = [pc EXCEPT ![i] = "getMyDevices"]
  /\ UNCHANGED <<event, spotifyDevices, playlists, playlistDevices,
                 playbackState, promises, response, writes, results>>
  /\ UNCHANGED codecVars

discoveryRequest(i) ==
  /\ IsRequest(i, "discoveryRequest")
  /\ startRead(i)

stateRefreshRequest(i) ==
  /\ IsRequest(i, "stateRefreshRequest")
  /\ startRead(i)

\* a failed read issued a second time before the handler gives up
readRaisesRetry(i, method) ==
  /\ pc[i] = method
  /\ IF Cardinality({k \in 1..Len(calls[i]) : calls[i][k].method = method}) < 2
     THEN /\ calls' = [calls EXCEPT ![i] =
                Append([@ EXCEPT ![Len(@)].status = "raised"],
                       [method |-> method, args |-> {}, token |-> spotify[i],
                        origin |-> <<0, 0>>, status |-> "pending"])]
          /\ UNCHANGED <<pc, results>>
     ELSE /\ calls' = [calls EXCEPT ![i] = [@ EXCEPT ![Len(@)].status = "raised"]]
          /\ pc' = [pc EXCEPT ![i] = "rejected"]
          /\ results' = [results EXCEPT ![i] = IF @ = <<>> THEN <<fail(<<[error |-> method]>>)>> ELSE @]
  /\ UNCHANGED <<event, spotify, spotifyDevices, playlists, playlistDevices,
                 playbackState, promises, response, writes>>
  /\ UNCHANGED codecVars

\* the read that invocation i awaits raises: nothing catches it, the promise
\* of the handler rejects
readRaises(i, method) ==
  /\ pc[i] = method
  /\ calls' = [calls EXCEPT ![i] = Settle(@, Len(@), "raised")]
  /\ pc' = [pc EXCEPT ![i] = "rejected"]
  /\ results' = [results EXCEPT ![i] = lambda(@, pc'[i], response[i], method)]
  /\ UNCHANGED <<event, spotify, spotifyDevices, playlists, playlistDevices,
                 playbackState, promises, response, writes>>
  /\ UNCHANGED codecVars

getMyDevicesRaises(i) ==
  /\ pc[i] = "getMyDevices"
  /\ readRaises(i, "getMyDevices")

getUserPlaylistsRaises(i) ==
  /\ pc[i] = "getUserPlaylists"
  /\ readRaises(i, "getUserPlaylists")

getMyCurrentPlaybackStateRaises(i) ==
  /\ pc[i] = "getMyCurrentPlaybackState"
  /\ readRaises(i, "getMyCurrentPlaybackState")

\* getPlaylistDevices from the return of getMyDevices to its second await
getMyDevicesReturns(i, DL) ==
  /\ pc[i] = "getMyDevices"
  /\ \E devs \in DL : spotifyDevices' = [spotifyDevices EXCEPT ![i] = devs]
  /\ calls' = [calls EXCEPT ![i] =
                 Append(Settle(@, Len(@), "returned"),
                        Call("getUserPlaylists", {}, spotify[i], ReadOrigin))]
  /\ pc' = [pc EXCEPT ![i] = "getUserPlaylists"]
  /\ UNCHANGED <<event, spotify, playlists, playlistDevices,
                 playbackState, promises, response, writes, results>>
  /\ UNCHANGED codecVars

\* discovery reading the playback state as state refresh does
getUserPlaylistsReturnsReadsState(i, PL) ==
  /\ pc[i] = "getUserPlaylists"
  /\ \E pls \in PL : playlists' = [playlists EXCEPT ![i] = pls]
  /\ playlistDevices' = [playlistDevices EXCEPT ![i] =
                           getPlaylistDevices(spotifyDevices[i], playlists'[i])]
  /\ calls' = [calls EXCEPT ![i] =
                 Append([@ EXCEPT ![Len(@)].status = "returned"],
                        [method |-> "getMyCurrentPlaybackState", args |-> {},
                         token |-> spotify[i], origin |-> <<0, 0>>, status |-> "pending"])]
  /\ pc' = [pc EXCEPT ![i] = "getMyCurrentPlaybackState"]
  /\ UNCHANGED <<response, results>>
  /\ UNCHANGED <<event, spotify, spotifyDevices, playbackState, promises, writes>>
  /\ UNCHANGED codecVars

\* getPlaylistDevices from the return of getUserPlaylists to its end, then
\* the rest of discoveryRequest, or stateRefreshRequest to its next await
getUserPlaylistsReturns(i, PL) ==
  /\ pc[i] = "getUserPlaylists"
  /\ \E pls \in PL : playlists' = [playlists EXCEPT ![i] = pls]
  /\ playlistDevices' = [playlistDevices EXCEPT ![i] =
                           getPlaylistDevices(spotifyDevices[i], playlists'[i])]
  /\ IF IsRequest(i, "discoveryRequest")
     THEN /\ calls' = [calls EXCEPT ![i] = Settle(@, Len(@), "returned")]
          /\ response' = [response EXCEPT ![i] = AddAnnouncements(@, playlistDevices'[i])]
          /\ pc' = [pc EXCEPT ![i] = "fulfilled"]
          /\ results' = [results EXCEPT ![i] = lambda(@, pc'[i], response'[i], "none")]
     ELSE /\ calls' = [calls EXCEPT ![i] =
                         Append(Settle(@, Len(@), "returned"),
                                Call("getMyCurrentPlaybackState", {}, spotify[i], ReadOrigin))]
          /\ pc' = [pc EXCEPT ![i] = "getMyCurrentPlaybackState"]
          /\ UNCHANGED <<response, results>>
  /\ UNCHANGED <<event, spotify, spotifyDevices, playbackState, promises, writes>>
  /\ UNCHANGED codecVars

\* stateRefreshRequest from the return of getMyCurrentPlaybackState to its end
getMyCurrentPlaybackStateReturns(i) ==
  /\ pc[i] = "getMyCurrentPlaybackState"
  /\ \E playing \in BOOLEAN :
       playbackState' = [playbackState EXCEPT ![i] = [is_playing |-> playing]]
  /\ calls' = [calls EXCEPT ![i] = Settle(@, Len(@), "returned")]
  /\ response' = [response EXCEPT ![i] =
                    AddStateReports(@, playlistDevices[i], playbackState'[i])]
  /\ pc' = [pc EXCEPT ![i] = "fulfilled"]
  /\ results' = [results EXCEPT ![i] = lambda(@, pc'[i], response'[i], "none")]
  /\ UNCHANGED <<event, spotify, spotifyDevices, playlists, playlistDevices,
                 promises, writes>>
  /\ UNCHANGED codecVars

\* ------------------------------------------------------------------ commands

NoCall == Call("none", {}, NoToken, ReadOrigin)

IsKnown(command) ==
  /\ command.capability = MediaPlayback
  /\ command.command \in {"play", "pause", "fastForward", "rewind"}

\* the dispatch without its outer switch on the capability
CommandCallAnyCapability(token, playlistDeviceId, command, origin) ==
  CASE command.command = "play" ->
         Call("play", { <<"context_uri", playlistDeviceId.playlistUri>>,
                        <<"device_id", playlistDeviceId.deviceId>> }, token, origin)
    [] command.command = "pause" ->
         Call("pause", { <<"device_id", playlistDeviceId.deviceId>> }, token, origin)
    [] command.command = "fastForward" -> Call("skipToNext", {}, token, origin)
    [] command.command = "rewind" -> Call("skipToPrevious", {}, token, origin)
    [] OTHER -> Call("none", {}, <<>>, <<0, 0>>)

\* the skips addressed to the playback target of the device, as pause is
CommandCallSkipOnDevice(token, playlistDeviceId, command, origin) ==
  IF command.capability # MediaPlayback THEN Call("none", {}, <<"none", 0>>, <<0, 0>>)
  ELSE CASE command.command = "play" ->
              Call("play", { <<"context_uri", playlistDeviceId.playlistUri>>,
                             <<"device_id", playlistDeviceId.deviceId>> }, token, origin)
         [] command.command = "pause" ->
              Call("pause", { <<"device_id", playlistDeviceId.deviceId>> }, token, origin)
         [] command.command = "fastForward" ->
              Call("skipToNext", { <<"device_id", playlistDeviceId.deviceId>> }, token, origin)
         [] command.command = "rewind" ->
              Call("skipToPrevious", { <<"device_id", playlistDeviceId.deviceId>> }, token, origin)
         [] OTHER -> Call("none", {}, <<"none", 0>>, <<0, 0>>)

\* the provider call the callback of one command issues before its await
CommandCall(token, playlistDeviceId, command, origin) ==
  IF command.capability # MediaPlayback THEN NoCall
  ELSE CASE command.command = "play" ->
              Call("play", { <<"context_uri", playlistDeviceId.playlistUri>>,
                             <<"device_id", playlistDeviceId.deviceId>> }, token, origin)
         [] command.command = "pause" ->
              Call("pause", { <<"device_id", playlistDeviceId.deviceId>> }, token, origin)
         [] command.command = "fastForward" -> Call("skipToNext", {}, token, origin)
         [] command.command = "rewind" -> Call("skipToPrevious", {}, token, origin)
         [] OTHER -> NoCall

\* play wrapped in a try/catch like the other three commands
CommandCallbackPlayTolerated(command, status) ==
  IF command.command = "pause"
  THEN [write |-> "paused", promise |-> "fulfilled"]
  ELSE [write |-> "playing", promise |-> "fulfilled"]

\* pause without its try/catch
CommandCallbackPauseUnprotected(command, status) ==
  IF command.command = "pause" /\ status = "raised"
  THEN [write |-> "none", promise |-> "rejected"]
  ELSE IF command.command = "play" /\ status = "raised"
  THEN [write |-> "none", promise |-> "rejected"]
  ELSE [write |-> IF command.command = "pause" THEN "paused" ELSE "playing",
        promise |-> "fulfilled"]

\* what the callback of one command does when its call has settled: the
\* playbackStatus it adds ("none": no addState) and how its promise settles
CommandCallback(command, status) ==
  CASE command.command = "play" ->
         IF status = "returned"
         THEN [write |-> "playing", promise |-> "fulfilled"]
         ELSE [write |-> "none", promise |-> "rejected"]
    [] command.command = "pause" -> [write |-> "paused", promise |-> "fulfilled"]
    [] command.command = "fastForward" -> [write |-> "playing", promise |-> "fulfilled"]
    [] command.command = "rewind" -> [write |-> "playing", promise |-> "fulfilled"]

\* the commands of a request run one after the other: only the call of the
\* first one is issued before anything is awaited
DeviceCallsSequential(token, deviceRequest, d) ==
  LET playlistDeviceId == externalIdToPlaylistDeviceId(deviceRequest.externalDeviceId)
      all == [c \in 1..Len(deviceRequest.commands) |->
                CommandCall(token, playlistDeviceId, deviceRequest.commands[c], <<d, c>>)]
      issued == SelectSeq(all, LAMBDA call : call.method # "none")
  IN SubSeq(issued, 1, Min(1, Len(issued)))

\* deviceRequest.commands.map(async command => ...) up to the awaits: the
\* calls issued for device-command request d, in order
DeviceCalls(token, deviceRequest, d) ==
  LET playlistDeviceId == externalIdToPlaylistDeviceId(deviceRequest.externalDeviceId)
      all == [c \in 1..Len(deviceRequest.commands) |->
                CommandCall(token, playlistDeviceId, deviceRequest.commands[c], <<d, c>>)]
  IN SelectSeq(all, LAMBDA call : call # NoCall)

\* the promises of the callbacks of device-command request d: a callback
\* without a call has returned null
DevicePromises(deviceRequest, d) ==
  [c \in 1..Len(deviceRequest.commands) |->
     [origin |-> <<d, c>>,
      state |-> IF IsKnown(deviceRequest.commands[c]) THEN "pending" ELSE "fulfilled"]]

RECURSIVE BatchCalls(_, _, _)
\* request.devices.map(async deviceRequest => ...) up to the awaits
BatchCalls(token, devices, d) ==
  IF d > Len(devices) THEN <<>>
  ELSE DeviceCalls(token, devices[d], d) \o BatchCalls(token, devices, d + 1)

RECURSIVE BatchPromises(_, _)
BatchPromises(devices, d) ==
  IF d > Len(devices) THEN <<>>
  ELSE DevicePromises(devices[d], d) \o BatchPromises(devices, d + 1)

\* response.addDevice(externalId) and device.addComponent("main")
DeviceEntry(externalId) ==
  [externalDeviceId |-> externalId, components |-> <<"main">>, states |-> <<>>]

\* device entries only for the requests that carry commands
AddDeviceEntriesSkipEmpty(resp, devices) ==
  LET busy == SelectSeq(devices, LAMBDA deviceRequest : deviceRequest.commands # <<>>)
  IN resp \o [d \in 1..Len(busy) |->
               [externalDeviceId |-> busy[d].externalDeviceId,
                components |-> <<"main">>, states |-> <<>>]]

AddDeviceEntries(resp, devices) ==
  resp \o [d \in 1..Len(devices) |-> DeviceEntry(devices[d].externalDeviceId)]

\* component.addState(capability, attribute, value) on the entry of request d
AddState(resp, d, state) == [resp EXCEPT ![d].states = Append(@, state)]

\* Promise.all over promises in the given states
PromiseAll(states) ==
  IF "rejected" \in states THEN "rejected"
  ELSE IF "pending" \in states THEN "pending"
  ELSE "fulfilled"

\* the inner Promise.all of device-command request d
DevicePromise(ps, d) ==
  PromiseAll({ps[k].state : k \in {j \in 1..Len(ps) : ps[j].origin[1] = d}})

\* the outer Promise.all, which commandRequest awaits
HandlerPromise(ps, n) == PromiseAll({DevicePromise(ps, d) : d \in 1..n})

\* a handler that reports to the transport at every completion of a command
\* once its promise has settled
JoinEveryTime(i, h, resp) ==
  /\ pc' = [pc EXCEPT ![i] = IF h = "pending" THEN "commands" ELSE h]
  /\ results' = [results EXCEPT ![i] =
        IF h = "fulfilled" THEN Append(@, [statusCode |-> 200, body |-> resp])
        ELSE IF h = "rejected" THEN Append(@, [statusCode |-> 500, body |-> <<[error |-> "play"]>>])
        ELSE @]

\* the await of the outer Promise.all in commandRequest, whose promise is in
\* state h: while the handler has not settled it settles as h does, and the
\* lambda reacts; a handler that has settled stays as it is
Join(i, h, resp) ==
  IF pc[i] \in {"idle", "commands"}
  THEN /\ pc' = [pc EXCEPT ![i] = IF h = "pending" THEN "commands" ELSE h]
       /\ results' = [results EXCEPT ![i] = lambda(@, h, resp, "play")]
  ELSE UNCHANGED <<pc, results>>

\* commandRequest up to its await: every device entry is added and every
\* call is issued before anything is awaited
commandRequest(i) ==
  /\ pc[i] = "idle"
  /\ IsRequest(i, "commandRequest")
  /\ spotify' = [spotify EXCEPT ![i] = getSpotify(event[i])]
  /\ response' = [response EXCEPT ![i] = AddDeviceEntries(@, event[i].devices)]
  /\ calls' = [calls EXCEPT ![i] = @ \o BatchCalls(spotify'[i], event[i].devices, 1)]
  /\ promises' = [promises EXCEPT ![i] = BatchPromises(event[i].devices, 1)]
  /\ Join(i, HandlerPromise(promises'[i], Len(event[i].devices)), response'[i])
  /\ UNCHANGED <<event, spotifyDevices, playlists, playlistDevices, playbackState, writes>>
  /\ UNCHANGED codecVars

\* the callback of the command that issued call k, from its await to its
\* end, and the promise reactions that follow
commandCallSettles(i, k, status) ==
  /\ k \in 1..Len(calls[i])
  /\ calls[i][k].status = "pending"
  /\ calls[i][k].origin # ReadOrigin
  /\ LET origin == calls[i][k].origin
         d == origin[1]
         command == event[i].devices[d].commands[origin[2]]
         effect == CommandCallback(command, status)
     IN /\ calls' = [calls EXCEPT ![i] = Settle(@, k, status)]
        /\ IF effect.write = "none"
           THEN UNCHANGED <<response, writes>>
           ELSE /\ response' = [response EXCEPT ![i] =
                      AddState(@, d, State(command.capability, "playbackStatus", effect.write))]
                /\ writes' = [writes EXCEPT ![i] =
                      @ \cup {[origin |-> origin, value |-> effect.write]}]
        /\ promises' = [promises EXCEPT ![i] =
              [p \in 1..Len(@) |-> IF @[p].origin = origin
                                   THEN [@[p] EXCEPT !.state = effect.promise]
                                   ELSE @[p]]]
        /\ Join(i, HandlerPromise(promises'[i], Len(event[i].devices)), response'[i])
  /\ UNCHANGED <<event, spotify, spotifyDevices, playlists, playlistDevices, playbackState>>
  /\ UNCHANGED codecVars

commandCallReturns(i, k) ==
  /\ k \in 1..Len(calls[i])
  /\ commandCallSettles(i, k, "returned")

commandCallRaises(i, k) ==
  /\ k \in 1..Len(calls[i])
  /\ commandCallSettles(i, k, "raised")

\* -------------------------------------------------------- the specification

\* one invocation, with any event
Init ==
  /\ CodecOff
  /\ \E e \in Events(Token(1), Batches(MaxDevs, MaxCmds)) :
       event = [i \in Invs |-> IF i = 1 THEN e ELSE NoEvent]
  /\ InvIdle

Next ==
  \E i \in Invs :
    \/ handlerCatch(i)
    \/ discoveryRequest(i)
    \/ stateRefreshRequest(i)
    \/ commandRequest(i)
    \/ getMyDevicesReturns(i, DeviceLists)
    \/ getMyDevicesRaises(i)
    \/ getUserPlaylistsReturns(i, PlaylistLists)
    \/ getUserPlaylistsRaises(i)
    \/ getMyCurrentPlaybackStateReturns(i)
    \/ getMyCurrentPlaybackStateRaises(i)
    \/ \E k \in 1..MaxCmds : commandCallReturns(i, k) \/ commandCallRaises(i, k)

Spec == Init /\ [][Next]_vars

\* ------------------------------------------------ concurrent invocations

\* the provider answers and the command batches of the concurrent invocations
ConcurrentDeviceLists ==
  { <<>>,
    << [id |-> <<"dev1">>, name |-> MobileWebPlayer, type |-> "Computer"],
       [id |-> <<"dev2">>, name |-> MobileWebPlayer, type |-> "Smartphone"] >> }

ConcurrentPlaylistLists ==
  { << [uri |-> <<"ctx1">>, name |-> "Mix"], [uri |-> <<"ctx2">>, name |-> "Jazz"] >> }

ConcurrentBatches ==
  { <<[externalDeviceId |-> <<"dev1", Delim, "ctx1">>, commands |-> <<c>>]>> :
      c \in {p \in CommandPairs : IsKnown(p)} }

\* every invocation slot is called, each with its own token, in any
\* interleaving of the invocations' steps
InitConcurrent ==
  /\ CodecOff
  /\ event \in [Invs -> UNION {Events(Token(i), ConcurrentBatches) : i \in Invs}]
  /\ \A i \in Invs : event[i].token \in {Token(i), NoToken}
  /\ InvIdle

NextConcurrent ==
  \E i \in Invs :
    \/ handlerCatch(i)
    \/ discoveryRequest(i)
    \/ stateRefreshRequest(i)
    \/ commandRequest(i)
    \/ getMyDevicesReturns(i, ConcurrentDeviceLists)
    \/ getMyDevicesRaises(i)
    \/ getUserPlaylistsReturns(i, ConcurrentPlaylistLists)
    \/ getUserPlaylistsRaises(i)
    \/ getMyCurrentPlaybackStateReturns(i)
    \/ getMyCurrentPlaybackStateRaises(i)
    \/ \E k \in 1..MaxCmds : commandCallReturns(i, k) \/ commandCallRaises(i, k)

SpecConcurrent == InitConcurrent /\ [][NextConcurrent]_vars

\* ------------------------------------------------------------ codec claims

\* C6: for every pair (t, q) of strings without the delimiter, decoding the
\* encoding of (t, q) gives back exactly (t, q).
C6_RoundTrip ==
  ( /\ codecPc = "roundTrip"
    /\ ~HasDelim(codecIn.id.deviceId)
    /\ ~HasDelim(codecIn.id.playlistUri) )
  => pid = codecIn.id

\* a round trip of a delimiter-free pair of two different non-empty components
C6_Witness ==
  /\ codecPc = "roundTrip"
  /\ codecIn.id = [deviceId |-> <<"dev1">>, playlistUri |-> <<"ctx1", "dev1">>]
  /\ ext = <<"dev1", Delim, "ctx1", "dev1">>
  /\ pid = codecIn.id

\* C7: an external id with at least one delimiter decodes to the substring
\* before the first delimiter (deviceId) and the whole remainder after the
\* first delimiter, further delimiters included (playlistUri).
C7_SplitAtFirstDelim ==
  (codecPc = "decoded" /\ HasDelim(codecIn.ext))
  => \E k \in 1..Len(codecIn.ext) :
       /\ codecIn.ext[k] = Delim
       /\ \A j \in 1..(k - 1) : codecIn.ext[j] # Delim
       /\ pid.deviceId = SubSeq(codecIn.ext, 1, k - 1)
       /\ pid.playlistUri = SubSeq(codecIn.ext, k + 1, Len(codecIn.ext))

\* ---------------------------------------------------------- command claims

PlayCommand == [capability |-> MediaPlayback, command |-> "play"]
PauseCommand == [capability |-> MediaPlayback, command |-> "pause"]

\* invocation i runs, or has run, the command handler
IsCommandInv(i) == IsRequest(i, "commandRequest") /\ pc[i] # "idle"

\* the commands of the batch of invocation i, as <<device index, command index>>
Origins(i) ==
  UNION { { <<d, c>> : c \in 1..Len(event[i].devices[d].commands) } :
          d \in 1..Len(event[i].devices) }

CommandAt(i, o) == event[i].devices[o[1]].commands[o[2]]

CallsFor(i, o) == {k \in 1..Len(calls[i]) : calls[i][k].origin = o}

WrittenBy(i, o) == {w \in writes[i] : w.origin = o}

PlaybackStatus(value) == State(MediaPlayback, "playbackStatus", value)

Reported(i, d) == Range(response[i][d].states)

TransportStatus(i) == results[i][1].statusCode

\* C1: a play command addressed to external id e invokes the provider's play
\* exactly once, with context = the playlistUri decoded from e and device =
\* the deviceId decoded from e; when the call returns, 'playing' is written
\* for that device; when it raises, the command writes no state and the
\* command handler of the batch fails.
C1_Play ==
  \A i \in Invs : IsCommandInv(i) =>
    /\ \A d \in 1..Len(event[i].devices) :
         Len(response[i][d].states) = Cardinality({w \in writes[i] : w.origin[1] = d})
    /\ \A o \in Origins(i) : CommandAt(i, o) = PlayCommand =>
         LET id == externalIdToPlaylistDeviceId(event[i].devices[o[1]].externalDeviceId)
         IN /\ Cardinality(CallsFor(i, o)) = 1
            /\ \A k \in CallsFor(i, o) :
                 /\ calls[i][k].method = "play"
                 /\ calls[i][k].args = { <<"context_uri", id.playlistUri>>,
                                         <<"device_id", id.deviceId>> }
                 /\ calls[i][k].status = "returned" =>
                      /\ WrittenBy(i, o) = {[origin |-> o, value |-> "playing"]}
                      /\ PlaybackStatus("playing") \in Reported(i, o[1])
                 /\ calls[i][k].status = "pending" => WrittenBy(i, o) = {}
                 /\ calls[i][k].status = "raised" =>
                      /\ WrittenBy(i, o) = {}
                      /\ pc[i] = "rejected"

\* two play commands for two devices: one has returned and written 'playing',
\* the other has raised, written nothing and failed the handler
C1_Witness ==
  /\ IsCommandInv(1)
  /\ Len(event[1].devices) = 2
  /\ event[1].devices[1].commands = <<PlayCommand>>
  /\ event[1].devices[2].commands = <<PlayCommand>>
  /\ event[1].devices[2].externalDeviceId = <<"dev1", Delim, "ctx1">>
  /\ Len(calls[1]) = 2
  /\ calls[1][1].status = "returned"
  /\ calls[1][2].status = "raised"
  /\ calls[1][2].args = { <<"context_uri", <<"ctx1">>>>, <<"device_id", <<"dev1">>>> }
  /\ response[1][1].states = <<PlaybackStatus("playing")>>
  /\ response[1][2].states = <<>>
  /\ pc[1] = "rejected"

\* the status a tolerated command reports
Optimistic(command) == IF command = PauseCommand THEN "paused" ELSE "playing"

NoPlayIn(i) == \A o \in Origins(i) : CommandAt(i, o) # PlayCommand

AllSettled(i) == \A k \in 1..Len(calls[i]) : calls[i][k].status # "pending"

PauseExample == <<[externalDeviceId |-> <<"dev1", Delim, "ctx1">>, commands |-> <<PauseCommand>>]>>

PauseExampleResult ==
  succeed(<< [ externalDeviceId |-> <<"dev1", Delim, "ctx1">>,
               components |-> <<"main">>,
               states |-> <<State("st.mediaPlayback", "playbackStatus", "paused")>> ] >>)

\* C2: in a batch of only pause, fastForward, rewind and unknown commands,
\* whichever provider calls raise, the handler never fails, every command
\* whose call has settled has written its optimistic status for its device
\* (pause: paused, fastForward and rewind: playing), and once every call has
\* settled the result is the success (200) carrying these states; the batch
\* of one pause on 'dev1|ctx1' whose call raises yields exactly that device
\* with component main and state (st.mediaPlayback, playbackStatus, paused).
C2_Tolerated ==
  \A i \in Invs : (IsCommandInv(i) /\ NoPlayIn(i)) =>
    /\ pc[i] # "rejected"
    /\ \A k \in 1..Len(calls[i]) : calls[i][k].status # "pending" =>
         LET o == calls[i][k].origin
         IN /\ WrittenBy(i, o) = {[origin |-> o, value |-> Optimistic(CommandAt(i, o))]}
            /\ PlaybackStatus(Optimistic(CommandAt(i, o))) \in Reported(i, o[1])
    /\ AllSettled(i) =>
         /\ pc[i] = "fulfilled"
         /\ results[i] = <<succeed(response[i])>>
    /\ (event[i].devices = PauseExample /\ AllSettled(i)) =>
         results[i] = <<PauseExampleResult>>

\* the end-to-end scenario: one pause on 'dev1|ctx1', the provider's pause raised
C2_Witness ==
  /\ IsCommandInv(1)
  /\ event[1].devices = PauseExample
  /\ Len(calls[1]) = 1
  /\ calls[1][1].method = "pause"
  /\ calls[1][1].status = "raised"
  /\ results[1] = <<PauseExampleResult>>

\* C3: by the time the command handler completes or fails (and from its start
\* on), every device-command request of the batch has one device entry with
\* a 'main' component for its external id, whatever happened to the commands.
C3_DeviceEntries ==
  \A i \in Invs : IsCommandInv(i) =>
    /\ Len(response[i]) = Len(event[i].devices)
    /\ \A d \in 1..Len(event[i].devices) :
         /\ response[i][d].externalDeviceId = event[i].devices[d].externalDeviceId
         /\ response[i][d].components = <<"main">>
    /\ \A e \in ExternalIds :
         Cardinality({d \in 1..Len(response[i]) : response[i][d].externalDeviceId = e})
           = Cardinality({d \in 1..Len(event[i].devices) : event[i].devices[d].externalDeviceId = e})

\* the handler has failed on the play of the first request; the second
\* request, without commands, has its entry all the same
C3_Witness ==
  /\ IsCommandInv(1)
  /\ pc[1] = "rejected"
  /\ Len(event[1].devices) = 2
  /\ event[1].devices[1].commands = <<PlayCommand, PauseCommand>>
  /\ event[1].devices[2].commands = <<>>
  /\ calls[1][1].status = "raised"
  /\ calls[1][2].status = "pending"
  /\ Len(response[1]) = 2
  /\ response[1][2].components = <<"main">>

\* -------------------------------------------------------- transport claims

ReadMethods == {"getMyDevices", "getUserPlaylists", "getMyCurrentPlaybackState"}

\* a failure no code of the handler catches: a read or a play that raised
UncaughtFailure(i) ==
  \E k \in 1..Len(calls[i]) :
    calls[i][k].status = "raised" /\ calls[i][k].method \in ReadMethods \cup {"play"}

\* C4: the transport result of an invocation is 200 exactly when the body
\* decoded and the selected handler completed without an uncaught failure,
\* and 500 otherwise; a batch in which a play failed yields the failure even
\* when other commands of the batch succeeded and wrote state.
C4_Transport ==
  \A i \in Invs :
    /\ Len(results[i]) <= 1
    /\ pc[i] \in {"caught", "fulfilled", "rejected"} <=> results[i] # <<>>
    /\ (pc[i] # "idle" /\ AllSettled(i)) => results[i] # <<>>
    /\ results[i] # <<>> =>
         /\ TransportStatus(i) \in {200, 500}
         /\ TransportStatus(i) = 200 <=>
              (event[i].body = "object" /\ pc[i] = "fulfilled" /\ ~UncaughtFailure(i))
         /\ TransportStatus(i) = 500 <=>
              (event[i].body \in {"malformed", "null"} \/ UncaughtFailure(i))
         /\ TransportStatus(i) = 200 => results[i][1].body = response[i]

\* a pause has returned and written 'paused', then the play of the same batch
\* has raised: the result is the failure
C4_Witness ==
  /\ IsCommandInv(1)
  /\ Len(calls[1]) = 2
  /\ calls[1][1].method = "pause" /\ calls[1][1].status = "returned"
  /\ calls[1][2].method = "play" /\ calls[1][2].status = "raised"
  /\ writes[1] # {}
  /\ Len(results[1]) = 1
  /\ TransportStatus(1) = 500

IsReadInv(i) ==
  pc[i] # "idle" /\ (IsRequest(i, "discoveryRequest") \/ IsRequest(i, "stateRefreshRequest"))

\* C5: in discovery and state refresh every read is issued at most once, and
\* when a read fails the handler fails, nothing is issued after the failed
\* read and no device has been added to the response.
C5_ReadFailure ==
  \A i \in Invs : IsReadInv(i) =>
    /\ \A m \in ReadMethods :
         Cardinality({k \in 1..Len(calls[i]) : calls[i][k].method = m}) <= 1
    /\ \A k \in 1..Len(calls[i]) : calls[i][k].method \in ReadMethods
    /\ \A k \in 1..Len(calls[i]) : calls[i][k].status = "raised" =>
         /\ k = Len(calls[i])
         /\ pc[i] = "rejected"
         /\ response[i] = <<>>
         /\ Len(results[i]) = 1
         /\ TransportStatus(i) = 500
    /\ pc[i] # "fulfilled" => response[i] = <<>>

\* a state refresh whose third read failed after four devices were enumerated
C5_Witness ==
  /\ IsRequest(1, "stateRefreshRequest")
  /\ Len(calls[1]) = 3
  /\ calls[1][3].method = "getMyCurrentPlaybackState"
  /\ calls[1][3].status = "raised"
  /\ Len(playlistDevices[1]) = 4
  /\ response[1] = <<>>
  /\ pc[1] = "rejected"

\* ------------------------------------------------------ enumeration claims

\* invocation i has run getPlaylistDevices to its end
Enumerated(i) ==
  \E k \in 1..Len(calls[i]) :
    calls[i][k].method = "getUserPlaylists" /\ calls[i][k].status = "returned"

\* the positions of the provider's devices that have an id and the configured name
Selected(i) ==
  { k \in 1..Len(spotifyDevices[i]) :
      /\ spotifyDevices[i][k].id \notin {Null, Undefined, <<>>}
      /\ spotifyDevices[i][k].name = "Mobile Web Player" }

\* C8: with m selected playback targets and n playlists the enumerator
\* returns exactly m*n devices, one for every (target, playlist) pair, no
\* two of them with the same (deviceId, playlistUri).
C8_CrossProduct ==
  \A i \in Invs : Enumerated(i) =>
    LET pds == playlistDevices[i]
    IN /\ Len(pds) = Cardinality(Selected(i)) * Len(playlists[i])
       /\ \A k \in Selected(i) : \A j \in 1..Len(playlists[i]) :
            \E a \in 1..Len(pds) :
              pds[a].id = [deviceId |-> spotifyDevices[i][k].id,
                           playlistUri |-> playlists[i][j].uri]
       /\ \A a, b \in 1..Len(pds) : a # b => pds[a].id # pds[b].id

\* three provider devices of which two are selected, two playlists, four devices
C8_Witness ==
  /\ Enumerated(1)
  /\ Len(spotifyDevices[1]) = 3
  /\ Cardinality(Selected(1)) = 2
  /\ Len(playlists[1]) = 2
  /\ Len(playlistDevices[1]) = 4

\* the (ExternalId, displayName, modelName) triples announced by invocation i
Triples(i) ==
  { [externalDeviceId |-> response[i][k].externalDeviceId,
     displayName |-> response[i][k].friendlyName,
     modelName |-> response[i][k].modelName] : k \in 1..Len(response[i]) }

DiscoveryDone(i) == IsRequest(i, "discoveryRequest") /\ pc[i] = "fulfilled"

\* C9: two discovery invocations that were given the same device list and the
\* same playlist list by the provider announce the same set of
\* (ExternalId, displayName, modelName) triples.
C9_DiscoveryIdempotent ==
  \A i, j \in Invs :
    ( /\ DiscoveryDone(i) /\ DiscoveryDone(j)
      /\ spotifyDevices[i] = spotifyDevices[j]
      /\ playlists[i] = playlists[j] )
    => Triples(i) = Triples(j)

\* two completed discoveries over the same inventory of two targets and two playlists
C9_Witness ==
  /\ DiscoveryDone(1) /\ DiscoveryDone(2)
  /\ spotifyDevices[1] = spotifyDevices[2]
  /\ playlists[1] = playlists[2]
  /\ Cardinality(Triples(1)) = 4
  /\ Triples(1) = Triples(2)

StateValues(i, d, attribute) ==
  { response[i][d].states[k].value :
      k \in {n \in 1..Len(response[i][d].states) : response[i][d].states[n].attribute = attribute} }

\* C10: in one state refresh every reported device carries the same
\* playbackStatus, 'playing' when the is_playing flag read in that
\* invocation is true and 'paused' otherwise, and the supported commands
\* pause, play, fastForward, rewind.
C10_UniformStatus ==
  \A i \in Invs : (IsRequest(i, "stateRefreshRequest") /\ pc[i] = "fulfilled") =>
    /\ Len(response[i]) = Len(playlistDevices[i])
    /\ \A d \in 1..Len(response[i]) :
         /\ StateValues(i, d, "playbackStatus")
              = {IF playbackState[i].is_playing THEN "playing" ELSE "paused"}
         /\ \A v \in StateValues(i, d, "supportedPlaybackCommands") :
              Range(v) = {"pause", "play", "fastForward", "rewind"}
         /\ Cardinality(StateValues(i, d, "supportedPlaybackCommands")) = 1
    /\ \A d, e \in 1..Len(response[i]) :
         StateValues(i, d, "playbackStatus") = StateValues(i, e, "playbackStatus")

\* a state refresh that read is_playing = true and reported four devices
C10_Witness ==
  /\ IsRequest(1, "stateRefreshRequest")
  /\ pc[1] = "fulfilled"
  /\ playbackState[1].is_playing
  /\ Len(response[1]) = 4
  /\ \A d \in 1..4 : StateValues(1, d, "playbackStatus") = {"playing"}

\* ------------------------------------------------- unknown command pairs

PromiseOf(i, o) == {p \in 1..Len(promises[i]) : promises[i][p].origin = o}

\* C11: a command pair whose capability is not st.mediaPlayback, or whose
\* command is none of play, pause, fastForward, rewind, issues no provider
\* call, adds no state to the component of its device and raises no failure
\* (its callback completes; a batch of such pairs only completes without any
\* call and with no state), and the entry of the addressed device is in the
\* response.
C11_UnknownNoOp ==
  \A i \in Invs : IsCommandInv(i) =>
    /\ \A o \in Origins(i) : ~IsKnown(CommandAt(i, o)) =>
         /\ CallsFor(i, o) = {}
         /\ WrittenBy(i, o) = {}
         /\ \A p \in PromiseOf(i, o) : promises[i][p].state = "fulfilled"
         /\ o[1] \in DOMAIN response[i]
         /\ response[i][o[1]].externalDeviceId = event[i].devices[o[1]].externalDeviceId
         /\ response[i][o[1]].components = <<"main">>
    /\ (\A o \in Origins(i) : ~IsKnown(CommandAt(i, o))) =>
         /\ calls[i] = <<>>
         /\ pc[i] = "fulfilled"
         /\ \A d \in 1..Len(response[i]) : response[i][d].states = <<>>

\* a batch of one request with the two unknown pairs (st.mediaPlayback, stop)
\* and (st.switch, play): no call, no state, the handler completed
C11_Witness ==
  /\ IsCommandInv(1)
  /\ Len(event[1].devices) = 1
  /\ event[1].devices[1].commands =
       << [capability |-> MediaPlayback, command |-> "stop"],
          [capability |-> "st.switch", command |-> "play"] >>
  /\ calls[1] = <<>>
  /\ pc[1] = "fulfilled"
  /\ Len(response[1]) = 1
  /\ response[1][1].states = <<>>

\* ------------------------------------------------ concurrent invocations

\* the request of an invocation, its token apart
Request(i) == <<event[i].body, event[i].interactionType, event[i].devices>>

\* what the provider answered to the calls of invocation i
Answers(i) ==
  << spotifyDevices[i], playlists[i], playbackState[i],
     [k \in 1..Len(calls[i]) |-> calls[i][k].status] >>

\* what invocation i did and returned
Outcome(i) ==
  << pc[i], playlistDevices[i], promises[i], response[i], writes[i], results[i],
     [k \in 1..Len(calls[i]) |-> <<calls[i][k].method, calls[i][k].args, calls[i][k].origin>>] >>

\* C12: in any interleaving of concurrent invocations, every provider call
\* of an invocation carries the token of that invocation's own request and
\* never the token of another invocation, and what an invocation does and
\* returns depends only on its own request and the provider's answers to its
\* own calls: two started invocations with the same request (tokens apart)
\* and the same answers have the same outcome, whatever the others did.
C12_Isolation ==
  /\ \A i \in Invs : \A k \in 1..Len(calls[i]) :
       /\ calls[i][k].token = event[i].token
       /\ calls[i][k].token = spotify[i]
       /\ \A j \in Invs \ {i} : calls[i][k].token # event[j].token
  /\ \A i, j \in Invs :
       (pc[i] # "idle" /\ pc[j] # "idle" /\ Request(i) = Request(j) /\ Answers(i) = Answers(j))
       => Outcome(i) = Outcome(j)

\* a discovery and a play command in flight at the same time, each with calls
\* under its own token; the command has completed while the discovery still
\* waits for its second read
C12_Witness ==
  /\ IsRequest(1, "discoveryRequest")
  /\ IsRequest(2, "commandRequest")
  /\ Len(calls[1]) = 2
  /\ calls[1][2].status = "pending"
  /\ calls[1][1].token = Token(1) /\ calls[1][2].token = Token(1)
  /\ Len(calls[2]) = 1
  /\ calls[2][1].method = "play"
  /\ calls[2][1].status = "returned"
  /\ calls[2][1].token = Token(2)
  /\ Token(1) # Token(2)
  /\ pc[2] = "fulfilled"

\* ------------------------------------------------------- the join of a batch

\* the command handler of invocation i has completed or failed
HandlerSettled(i) == IsCommandInv(i) /\ pc[i] \in {"fulfilled", "rejected"}

\* C13: once the command handler has completed, by success or by failure,
\* no provider call of its batch is pending, and no step taken afterwards
\* writes a state into the response accumulator.
C13_JoinedBeforeReturn ==
  [][ \A i \in Invs :
        /\ HandlerSettled(i) => (AllSettled(i) /\ response'[i] = response[i])
        /\ HandlerSettled(i)' => AllSettled(i)' ]_vars

\* C14: an invocation with a provider call that has not returned has
\* produced no transport result, neither 200 nor 500, whatever the request
\* and the batch (so a call that never returns leaves the invocation without
\* a result for ever), also when the play of another command of the batch
\* has raised meanwhile.
C14_StalledNoResult ==
  \A i \in Invs : results[i] # <<>> => AllSettled(i)

\* ------------------------------------------------------ conflicting commands

\* device-command request d of invocation i carries both play and pause
Conflicting(i, d) ==
  {PlayCommand, PauseCommand} \subseteq Range(event[i].devices[d].commands)

\* C15: for a device-command request with conflicting commands (play and
\* pause), the playbackStatus reported for its device is only the value
\* written last into the states of that device: an earlier write is not in
\* the report.
C15_LastWriteOnly ==
  \A i \in Invs : IsCommandInv(i) =>
    \A d \in 1..Len(event[i].devices) :
      (Conflicting(i, d) /\ response[i][d].states # <<>>) =>
        LET states == response[i][d].states
        IN /\ StateValues(i, d, "playbackStatus") = {states[Len(states)].value}
           /\ Cardinality({k \in 1..Len(states) : states[k].attribute = "playbackStatus"}) = 1

\* -------------------------------------------------------- concurrent dispatch

KnownOrigins(i) == {o \in Origins(i) : IsKnown(CommandAt(i, o))}

\* C16: the provider call of every recognized command pair of every request
\* of the batch is issued before any call of the batch has settled (all of
\* them are there, pending, as soon as the handler has started, and none is
\* there before), and each is issued exactly once, also after other calls of
\* the batch have returned or raised.
C16_ConcurrentDispatch ==
  \A i \in Invs :
    /\ (IsRequest(i, "commandRequest") /\ pc[i] = "idle") => calls[i] = <<>>
    /\ IsCommandInv(i) =>
         /\ \A o \in KnownOrigins(i) : Cardinality(CallsFor(i, o)) = 1
         /\ Len(calls[i]) = Cardinality(KnownOrigins(i))
         /\ \A k \in 1..Len(calls[i]) : calls[i][k].origin \in KnownOrigins(i)

\* two requests with one command each: the play of the first has raised and
\* failed the handler, the pause of the second was issued all the same, once,
\* and is still pending
C16_Witness ==
  /\ IsCommandInv(1)
  /\ Len(event[1].devices) = 2
  /\ event[1].devices[1].commands = <<PlayCommand>>
  /\ event[1].devices[2].commands = <<PauseCommand>>
  /\ Len(calls[1]) = 2
  /\ calls[1][1].method = "play" /\ calls[1][1].status = "raised"
  /\ calls[1][2].method = "pause" /\ calls[1][2].status = "pending"
  /\ Cardinality(CallsFor(1, <<2, 1>>)) = 1

\* ---------------------------------------------------------------- termination

\* the command batches of the fair runs: one request with two commands, or
\* two requests with one command each, over play, pause, rewind and an
\* unknown pair
FairCommands ==
  { PlayCommand, PauseCommand,
    [capability |-> MediaPlayback, command |-> "rewind"],
    [capability |-> MediaPlayback, command |-> "stop"] }

FairBatches ==
  { <<>> }
  \cup { <<[externalDeviceId |-> <<"dev1", Delim, "ctx1">>, commands |-> <<c1, c2>>]>> :
           c1 \in FairCommands, c2 \in FairCommands }
  \cup { << [externalDeviceId |-> <<"dev1", Delim, "ctx1">>, commands |-> <<c1>>],
            [externalDeviceId |-> <<"dev2", Delim, "ctx2", Delim, "ctx1">>, commands |-> <<c2>>] >> :
           c1 \in FairCommands, c2 \in FairCommands }

InitFair ==
  /\ CodecOff
  /\ \E e \in Events(Token(1), FairBatches) :
       event = [i \in Invs |-> IF i = 1 THEN e ELSE NoEvent]
  /\ InvIdle

\* the runtime runs the handler of invocation i
Invoke(i) ==
  \/ handlerCatch(i)
  \/ discoveryRequest(i)
  \/ stateRefreshRequest(i)
  \/ commandRequest(i)

\* the read that invocation i awaits returns or raises
ReadSettles(i) ==
  \/ getMyDevicesReturns(i, ConcurrentDeviceLists)
  \/ getMyDevicesRaises(i)
  \/ getUserPlaylistsReturns(i, ConcurrentPlaylistLists)
  \/ getUserPlaylistsRaises(i)
  \/ getMyCurrentPlaybackStateReturns(i)
  \/ getMyCurrentPlaybackStateRaises(i)

\* call k of the command batch of invocation i returns or raises
CallSettles(i, k) == commandCallReturns(i, k) \/ commandCallRaises(i, k)

\* every invocation is run, and every provider call eventually returns, with
\* a value or with an error
Fairness ==
  \A i \in Invs :
    /\ WF_vars(Invoke(i))
    /\ WF_vars(ReadSettles(i))
    /\ \A k \in 1..MaxCmds : WF_vars(CallSettles(i, k))

SpecFair == InitFair /\ [][NextConcurrent]_vars /\ Fairness

\* C17: when every provider call eventually returns, every invocation
\* eventually produces a transport result; it never has more than one, and
\* the one it has produced never changes, whatever completes later.
C17_OneResult ==
  /\ \A i \in Invs : (event[i].body # "absent") ~> (results[i] # <<>>)
  /\ [](\A i \in Invs : Len(results[i]) <= 1)
  /\ [][\A i \in Invs : results[i] # <<>> => results'[i] = results[i]]_vars

\* the play of a batch has raised and the 500 was produced; the pause of the
\* batch returned afterwards and wrote its state, and the result is still
\* the one failure
C17_Witness ==
  /\ IsCommandInv(1)
  /\ Len(event[1].devices) = 1
  /\ event[1].devices[1].commands = <<PlayCommand, PauseCommand>>
  /\ Len(calls[1]) = 2
  /\ calls[1][1].status = "raised"
  /\ calls[1][2].status = "returned"
  /\ response[1][1].states = <<PlaybackStatus("paused")>>
  /\ Len(results[1]) = 1
  /\ TransportStatus(1) = 500

\* ------------------------------------------------------------ read-only reads

\* the methods of the calls invocation i has issued, in order
Methods(i) == [k \in 1..Len(calls[i]) |-> calls[i][k].method]

IsPrefix(s, t) == Len(s) <= Len(t) /\ s = SubSeq(t, 1, Len(s))

\* C18: a discovery or state-refresh invocation never invokes play, pause,
\* skip-next or skip-previous; the calls of a discovery are list-devices then
\* list-playlists and nothing else, the calls of a state refresh are those
\* two and then one read of the current playback state; an invocation that
\* completed has issued all of them.
C18_ReadOnly ==
  \A i \in Invs :
    /\ IsReadInv(i) =>
         \A k \in 1..Len(calls[i]) :
           /\ calls[i][k].method \notin {"play", "pause", "skipToNext", "skipToPrevious"}
           /\ calls[i][k].args = {}
    /\ (IsReadInv(i) /\ IsRequest(i, "discoveryRequest")) =>
         /\ IsPrefix(Methods(i), <<"getMyDevices", "getUserPlaylists">>)
         /\ pc[i] = "fulfilled" => Len(calls[i]) = 2
    /\ (IsReadInv(i) /\ IsRequest(i, "stateRefreshRequest")) =>
         /\ IsPrefix(Methods(i), <<"getMyDevices", "getUserPlaylists", "getMyCurrentPlaybackState">>)
         /\ pc[i] = "fulfilled" => Len(calls[i]) = 3

\* a completed discovery that announced devices after exactly its two reads
C18_Witness ==
  /\ IsRequest(1, "discoveryRequest")
  /\ pc[1] = "fulfilled"
  /\ Methods(1) = <<"getMyDevices", "getUserPlaylists">>
  /\ \A k \in 1..2 : calls[1][k].status = "returned"
  /\ Len(response[1]) = 4

\* ---------------------------------------------------------- enumeration order

\* the position in the result of the device of the target at position k and
\* the playlist at position j of the provider's lists
Position(i, k, j) ==
  CHOOSE a \in 1..Len(playlistDevices[i]) :
    playlistDevices[i][a].id = [deviceId |-> spotifyDevices[i][k].id,
                                playlistUri |-> playlists[i][j].uri]

\* C19: the result of the enumerator is ordered by target first and playlist
\* second, both in the provider's order: the device of (target k1, playlist
\* j1) precedes the device of (target k2, playlist j2) exactly when k1 < k2,
\* or k1 = k2 and j1 < j2; a target without id or with another name has no
\* device in the result, and the others keep their relative order.
C19_ProviderOrder ==
  \A i \in Invs : Enumerated(i) =>
    LET pds == playlistDevices[i]
        n == Len(playlists[i])
    IN /\ \A k1, k2 \in Selected(i) : \A j1, j2 \in 1..n :
            (Position(i, k1, j1) < Position(i, k2, j2))
              <=> (k1 < k2 \/ (k1 = k2 /\ j1 < j2))
       /\ \A a \in 1..Len(pds) :
            \E k \in Selected(i) : \E j \in 1..n :
              /\ a = Position(i, k, j)
              /\ a = Cardinality({s \in Selected(i) : s < k}) * n + j
       /\ \A k \in (1..Len(spotifyDevices[i])) \ Selected(i) :
            \A a \in 1..Len(pds) : pds[a].id.deviceId # spotifyDevices[i][k].id

\* the provider listed dev2, the unselected Kitchen speaker and dev1, and
\* the playlists ctx2 and ctx1: the result keeps that order
C19_Witness ==
  /\ Enumerated(1)
  /\ Len(spotifyDevices[1]) = 3
  /\ spotifyDevices[1][1].id = <<"dev2">>
  /\ spotifyDevices[1][2].name = "Kitchen"
  /\ spotifyDevices[1][3].id = <<"dev1">>
  /\ Len(playlists[1]) = 2
  /\ playlists[1][1].uri = <<"ctx2">>
  /\ playlists[1][2].uri = <<"ctx1">>
  /\ [a \in 1..Len(playlistDevices[1]) |-> playlistDevices[1][a].id]
       = << [deviceId |-> <<"dev2">>, playlistUri |-> <<"ctx2">>],
            [deviceId |-> <<"dev2">>, playlistUri |-> <<"ctx1">>],
            [deviceId |-> <<"dev1">>, playlistUri |-> <<"ctx2">>],
            [deviceId |-> <<"dev1">>, playlistUri |-> <<"ctx1">>] >>

\* ------------------------------------------------------- account-wide skips

FastForwardCommand == [capability |-> MediaPlayback, command |-> "fastForward"]
RewindCommand == [capability |-> MediaPlayback, command |-> "rewind"]

\* the provider call without what tells one issue of it from another
Action(call) == [method |-> call.method, args |-> call.args]

\* C20: the call issued for fastForward is skip-next and the one for rewind
\* skip-previous, both without any argument, so neither the playback target
\* nor the playlist of the addressed device is in it and the call is the
\* same whatever external id the command is addressed to; the call for pause
\* carries the decoded playback target and nothing else, the call for play
\* the decoded playlist and the decoded playback target.
C20_AccountWideSkips ==
  \A i \in Invs : IsCommandInv(i) =>
    /\ \A k \in 1..Len(calls[i]) :
         LET o == calls[i][k].origin
             id == externalIdToPlaylistDeviceId(event[i].devices[o[1]].externalDeviceId)
             command == CommandAt(i, o)
         IN /\ command = FastForwardCommand =>
                 Action(calls[i][k]) = [method |-> "skipToNext", args |-> {}]
            /\ command = RewindCommand =>
                 Action(calls[i][k]) = [method |-> "skipToPrevious", args |-> {}]
            /\ command = PauseCommand =>
                 Action(calls[i][k]) =
                   [method |-> "pause", args |-> { <<"device_id", id.deviceId>> }]
            /\ command = PlayCommand =>
                 Action(calls[i][k]) =
                   [method |-> "play", args |-> { <<"context_uri", id.playlistUri>>,
                                                  <<"device_id", id.deviceId>> }]
    /\ \A k, l \in 1..Len(calls[i]) :
         ( /\ CommandAt(i, calls[i][k].origin) = CommandAt(i, calls[i][l].origin)
           /\ CommandAt(i, calls[i][k].origin) \in {FastForwardCommand, RewindCommand} )
         => Action(calls[i][k]) = Action(calls[i][l])

\* fastForward addressed to two different external ids: the same skip-next
\* call, without arguments, is issued for both
C20_Witness ==
  /\ IsCommandInv(1)
  /\ Len(event[1].devices) = 2
  /\ event[1].devices[1].externalDeviceId = <<"dev1", Delim, "ctx1">>
  /\ event[1].devices[2].externalDeviceId = <<"dev2", Delim, "ctx2", Delim, "ctx1">>
  /\ event[1].devices[1].commands = <<FastForwardCommand>>
  /\ event[1].devices[2].commands = <<FastForwardCommand>>
  /\ Len(calls[1]) = 2
  /\ Action(calls[1][1]) = [method |-> "skipToNext", args |-> {}]
  /\ Action(calls[1][2]) = Action(calls[1][1])
  /\ calls[1][1].status = "returned"

====
